---- MODULE Spec2Model ----
(***************************************************************************)
(* Model of editmsg.c: the round trip "extract one message into a          *)
(* temporary mbox file, run the external editor on it, detect a change,    *)
(* append the edited file to the mailbox as a new record, flag the         *)
(* original".  edit_or_view_one_message is modelled statement by           *)
(* statement (pc names the next statement to run); every collaborator     *)
(* call (mx_*, stat, truncate, the editor, ...) is a nondeterministic      *)
(* choice over the results its interface allows.                           *)
(***************************************************************************)
EXTENDS Integers, Sequences, FiniteSets, TLC

\* ---------------------------------------------------------------- bounds
MaxMsgs == 2      \* messages in the mailbox (msg_count)
MaxSize == 2      \* largest size, in bytes, of the temporary file
MaxTime == 1      \* largest modification time a file can carry

\* ------------------------------------------------------------- constants
RcUnset == -2     \* "int rc;" before its first assignment

Magics      == {"MBOX", "MMDF", "MAILDIR"}
Handles     == {"tmpctx", "dest", "msg", "fp"}
NoHandles   == [h \in Handles |-> 0]

\* The flag combinations the single target of a call starts with.
FlagChoices ==
  { [read |-> FALSE, old |-> FALSE, tagged |-> TRUE,  deleted |-> FALSE, purged |-> FALSE],
    [read |-> TRUE,  old |-> TRUE,  tagged |-> TRUE,  deleted |-> FALSE, purged |-> FALSE],
    [read |-> FALSE, old |-> TRUE,  tagged |-> FALSE, deleted |-> FALSE, purged |-> FALSE] }

\* The flag combinations of the messages of a batch: tagged or not.
BatchChoices ==
  { [read |-> FALSE, old |-> TRUE,  tagged |-> TRUE,  deleted |-> FALSE, purged |-> FALSE],
    [read |-> TRUE,  old |-> FALSE, tagged |-> FALSE, deleted |-> FALSE, purged |-> FALSE] }

\* The messages a call never looks at.
Bystander ==
    [read |-> TRUE,  old |-> FALSE, tagged |-> FALSE, deleted |-> FALSE, purged |-> FALSE]

VARIABLES
  \* ---- arguments and globals
  edit,         \* bool edit
  e,            \* struct Email *e of edit_or_view_message: 0 is NULL, else index+1
  emails,       \* ctx->mailbox->emails[]: the flags of every message
  magic,        \* m->magic, the format of the mailbox
  MboxType,     \* global default format of new folders
  DeleteUntag,  \* global $delete_untag
  \* ---- edit_or_view_message
  dpc,          \* position in edit_or_view_message
  i,            \* loop index (0-based)
  result,       \* return value of edit_or_view_message (RcUnset until it returns)
  processed,    \* history: <<index, return value>> of every finished call
  \* ---- edit_or_view_one_message
  pc,           \* position in edit_or_view_one_message
  cur,          \* struct Email *cur, as an index into emails (0 outside a call)
  rc,
  rv,           \* value returned by the call (RcUnset until it returns)
  omagic, o_read, o_old, of, cf, chflags, mtime, sb,
  \* ---- the temporary file tmp
  tmp,          \* [exists, size, mtime, writable]
  \* ---- the mailbox on disk
  appended,     \* number of records committed to the mailbox by mx_msg_commit
  \* ---- history of the current call
  entry,        \* flags of cur when the call was entered
  entryMagic,   \* MboxType when the call was entered
  written,      \* size of the file when mutt_append_message returned
  handed,       \* size of the file when the editor was started
  log,          \* events of the call
  opens, closes,\* per handle: how often it was opened / closed
  \* ---- history across edit cycles of one message
  made,         \* the record this call committed: [size, handed], or NoCycle
  origin        \* the record the target was read from, when an earlier cycle made it

vars == << edit, e, emails, magic, MboxType, DeleteUntag, dpc, i, result, processed,
           pc, cur, rc, rv, omagic, o_read, o_old, of, cf, chflags, mtime, sb,
           tmp, appended, entry, entryMagic, written, handed, log, opens, closes,
           made, origin >>

glob   == << edit, e, magic, DeleteUntag, origin >>
driver == << dpc, i, result, processed >>
locals == << omagic, o_read, o_old, of, cf, chflags, mtime, sb >>
hist   == << entry, entryMagic, written, handed, made >>

NoFile == [exists |-> FALSE, size |-> 0, mtime |-> 0, writable |-> FALSE]
NoStat == [st_size |-> 0, st_mtime |-> 0]
NoEntry == CHOOSE f \in FlagChoices : TRUE

\* No record of an earlier cycle.  In a record [size, handed], size is the
\* size of the committed record without its separator and handed the size of
\* the file the editor was given in the cycle that made it, or -1 when that
\* editor changed the content.
NoCycle == [size |-> -1, handed |-> -1]

\* The flags of a record that an edit cycle added to the mailbox.
NewRecord ==
    [read |-> FALSE, old |-> FALSE, tagged |-> FALSE, deleted |-> FALSE, purged |-> FALSE]

IsMboxLike(mg) == mg \in {"MBOX", "MMDF"}

Open(S)   == opens'  = [h \in Handles |-> opens[h]  + (IF h \in S THEN 1 ELSE 0)]
Close(S)  == closes' = [h \in Handles |-> closes[h] + (IF h \in S THEN 1 ELSE 0)]
Live(h)   == opens[h] > closes[h]
Log(ev)   == log' = log \cup ev

\* mutt_set_flag(Context->mailbox, cur, flag, bf)
mutt_set_flag(em, flag, bf) == [em EXCEPT ![flag] = bf]

Init ==
  /\ edit \in BOOLEAN
  /\ e \in {0, 1}            \* NULL, or the first message as the single target
  /\ IF e = 0
       THEN emails \in [1..MaxMsgs -> BatchChoices]
       ELSE \E f \in FlagChoices : emails = [k \in 1..MaxMsgs |-> IF k = e THEN f ELSE Bystander]
  /\ magic \in Magics
  /\ MboxType \in {"MBOX", "MAILDIR"}
  /\ DeleteUntag \in BOOLEAN
  /\ dpc = "start" /\ i = 0 /\ result = RcUnset /\ processed = << >>
  /\ pc = "idle" /\ cur = 0 /\ rc = RcUnset /\ rv = RcUnset
  /\ omagic = "MBOX" /\ o_read = FALSE /\ o_old = FALSE
  /\ of = {} /\ cf = {} /\ chflags = {} /\ mtime = 0 /\ sb = NoStat
  /\ tmp = NoFile
  /\ appended = 0
  /\ entry = NoEntry
  /\ entryMagic = "MBOX"
  /\ written = 0 /\ handed = 0 /\ log = {}
  /\ opens = NoHandles /\ closes = NoHandles
  /\ made = NoCycle /\ origin = NoCycle

\* Entry of edit_or_view_one_message(edit, m, cur): fresh locals, fresh tmp.
EnterOne(idx) ==
  /\ pc' = "mktemp" /\ cur' = idx /\ rc' = RcUnset /\ rv' = RcUnset
  /\ omagic' = "MBOX" /\ o_read' = FALSE /\ o_old' = FALSE
  /\ of' = {} /\ cf' = {} /\ chflags' = {} /\ mtime' = 0 /\ sb' = NoStat
  /\ tmp' = NoFile
  /\ entry' = emails[idx] /\ entryMagic' = MboxType
  /\ written' = 0 /\ handed' = 0 /\ log' = {}
  /\ opens' = NoHandles /\ closes' = NoHandles
  /\ made' = NoCycle
  /\ UNCHANGED << emails, MboxType, appended >>

\* ------------------------------------------------ edit_or_view_one_message

\* mutt_mktemp(tmp); omagic = MboxType; MboxType = MUTT_MBOX;
SaveMboxType ==
  /\ pc = "mktemp"
  /\ omagic' = MboxType
  /\ MboxType' = "MBOX"
  /\ pc' = "create"
  /\ UNCHANGED << glob, driver, emails, cur, rc, rv, o_read, o_old, of, cf, chflags,
                  mtime, sb, tmp, appended, hist, log, opens, closes >>

\* CreateSurrogate that restores MboxType only after the test of tmpctx.
CreateSurrogate_RestoreLate ==
  /\ pc = "create"
  /\ \E ok \in BOOLEAN :
       IF ok
         THEN /\ tmp' = [exists |-> TRUE, size |-> 0, mtime |-> 1, writable |-> TRUE]
              /\ Open({"tmpctx"})
              /\ Log({"created"})
              /\ pc' = "append"
              /\ rv' = rv
              /\ MboxType' = omagic
         ELSE /\ Log({"err_create"})
              /\ rv' = -1
              /\ pc' = "done"
              /\ UNCHANGED << tmp, opens, MboxType >>
  /\ UNCHANGED << glob, driver, emails, cur, rc, omagic, o_read, o_old, of, cf,
                  chflags, mtime, sb, appended, hist, closes >>

\* tmpctx = mx_mbox_open(NULL, tmp, MUTT_NEWFOLDER); MboxType = omagic;
\* if (!tmpctx) { mutt_error(...); return -1; }
CreateSurrogate ==
  /\ pc = "create"
  /\ MboxType' = omagic
  /\ \E ok \in BOOLEAN :
       IF ok
         THEN /\ tmp' = [exists |-> TRUE, size |-> 0, mtime |-> 1, writable |-> TRUE]
              /\ Open({"tmpctx"})
              /\ Log({"created"})
              /\ pc' = "append"
              /\ rv' = rv
         ELSE /\ Log({"err_create"})
              /\ rv' = -1
              /\ pc' = "done"
              /\ UNCHANGED << tmp, opens >>
  /\ UNCHANGED << glob, driver, emails, cur, rc, omagic, o_read, o_old, of, cf,
                  chflags, mtime, sb, appended, hist, closes >>

\* AppendMessage with the test "if (rc == -1) goto bail" left out.
AppendMessage_IgnoreError ==
  /\ pc = "append"
  /\ chflags' = {"CH_NOLEN"} \cup (IF IsMboxLike(magic) THEN {} ELSE {"CH_NOSTATUS"})
  /\ \E r \in {0, -1}, sz \in 0..MaxSize :
       /\ (r = 0 /\ origin # NoCycle) => sz = origin.size + 1
       /\ rc' = r
       /\ tmp' = [tmp EXCEPT !.size = sz]
       /\ written' = sz
       /\ IF r = -1
            THEN Log({"err_append"}) /\ pc' = "stat1"
            ELSE Log({"extracted"}) /\ pc' = "stat1"
  /\ Close({"tmpctx"})
  /\ UNCHANGED << glob, driver, emails, MboxType, cur, rv, omagic, o_read, o_old, of, cf,
                  mtime, sb, appended, entry, entryMagic, handed, made, opens >>

\* chflags = ...; rc = mutt_append_message(tmpctx->mailbox, m, cur, 0, chflags);
\* mx_mbox_close(&tmpctx); if (rc == -1) { mutt_error(...); goto bail; }
AppendMessage ==
  /\ pc = "append"
  /\ chflags' = {"CH_NOLEN"} \cup (IF IsMboxLike(magic) THEN {} ELSE {"CH_NOSTATUS"})
  /\ \E r \in {0, -1}, sz \in 0..MaxSize :
       /\ (r = 0 /\ origin # NoCycle) => sz = origin.size + 1
       /\ rc' = r
       /\ tmp' = [tmp EXCEPT !.size = sz]
       /\ written' = sz
       /\ IF r = -1
            THEN Log({"err_append"}) /\ pc' = "bail"
            ELSE Log({"extracted"}) /\ pc' = "stat1"
  /\ Close({"tmpctx"})
  /\ UNCHANGED << glob, driver, emails, MboxType, cur, rv, omagic, o_read, o_old, of, cf,
                  mtime, sb, appended, entry, entryMagic, handed, made, opens >>

\* rc = stat(tmp, &sb); if (rc == -1) { mutt_error(...); goto bail; }
StatSurrogate ==
  /\ pc = "stat1"
  /\ \E r \in {0, -1} :
       /\ rc' = r
       /\ IF r = -1
            THEN Log({"err_stat1"}) /\ pc' = "bail" /\ sb' = sb
            ELSE /\ sb' = [st_size |-> tmp.size, st_mtime |-> tmp.mtime]
                 /\ pc' = "truncate"
                 /\ log' = log
  /\ UNCHANGED << glob, driver, emails, MboxType, cur, rv, omagic, o_read, o_old, of, cf,
                  chflags, mtime, tmp, appended, hist, opens, closes >>

\* TruncateSurrogate that leaves the separator byte in the file.
TruncateSurrogate_NoTrim ==
  /\ pc = "truncate"
  /\ pc' = "chmod"
  /\ UNCHANGED << tmp, log >>
  /\ UNCHANGED << glob, driver, emails, MboxType, cur, rc, rv, locals, appended, hist,
                  opens, closes >>

\* if (sb.st_size != 0 && truncate(tmp, sb.st_size - 1) == -1)
\* { mutt_error(...); goto bail; }
TruncateSurrogate ==
  /\ pc = "truncate"
  /\ IF sb.st_size # 0
       THEN \E r \in {0, -1} :
              IF r = -1
                THEN Log({"err_truncate"}) /\ pc' = "bail" /\ tmp' = tmp
                ELSE /\ tmp' = [tmp EXCEPT !.size = sb.st_size - 1]
                     /\ Log({"trimmed"})
                     /\ pc' = "chmod"
       ELSE pc' = "chmod" /\ UNCHANGED << tmp, log >>
  /\ UNCHANGED << glob, driver, emails, MboxType, cur, rc, rv, locals, appended, hist,
                  opens, closes >>

\* RemoveWritePermission that gives up when the permissions cannot be changed.
RemoveWritePermission_Fatal ==
  /\ pc = "chmod"
  /\ IF ~edit
       THEN \E r \in {0, -1} :
              /\ rc' = r
              /\ IF r = -1
                   THEN Log({"dbg_chmod"}) /\ tmp' = tmp /\ pc' = "bail"
                   ELSE tmp' = [tmp EXCEPT !.writable = FALSE] /\ log' = log
                        /\ pc' = "baseline"
       ELSE UNCHANGED << rc, tmp, log >> /\ pc' = "baseline"
  /\ UNCHANGED << glob, driver, emails, MboxType, cur, rv, locals, appended, hist,
                  opens, closes >>

\* if (!edit) { rc = mutt_file_chmod_rm_stat(tmp, S_IWUSR|S_IWGRP|S_IWOTH, &sb);
\*              if (rc == -1) mutt_debug(...); }
RemoveWritePermission ==
  /\ pc = "chmod"
  /\ IF ~edit
       THEN \E r \in {0, -1} :
              /\ rc' = r
              /\ IF r = -1
                   THEN Log({"dbg_chmod"}) /\ tmp' = tmp
                   ELSE tmp' = [tmp EXCEPT !.writable = FALSE] /\ log' = log
       ELSE UNCHANGED << rc, tmp, log >>
  /\ pc' = "baseline"
  /\ UNCHANGED << glob, driver, emails, MboxType, cur, rv, locals, appended, hist,
                  opens, closes >>

\* mutt_file_decrease_mtime(f, NULL): when the file's mtime is the current
\* second it is set one second back; the file's (new) mtime is returned.
mutt_file_decrease_mtime(f, isNow) ==
  IF isNow THEN [f EXCEPT !.mtime = @ - 1] ELSE f

\* CaptureBaseline taking the baseline from the outdated stat buffer sb.
CaptureBaseline_ReuseStat ==
  /\ pc = "baseline"
  /\ \E isNow \in BOOLEAN :
       /\ tmp' = mutt_file_decrease_mtime(tmp, isNow)
       /\ mtime' = sb.st_mtime
  /\ pc' = "editor"
  /\ UNCHANGED << glob, driver, emails, MboxType, cur, rc, rv, omagic, o_read, o_old,
                  of, cf, chflags, sb, appended, hist, log, opens, closes >>

\* mtime = mutt_file_decrease_mtime(tmp, NULL);
CaptureBaseline ==
  /\ pc = "baseline"
  /\ \E isNow \in BOOLEAN :
       /\ tmp' = mutt_file_decrease_mtime(tmp, isNow)
       /\ mtime' = tmp'.mtime
  /\ pc' = "editor"
  /\ UNCHANGED << glob, driver, emails, MboxType, cur, rc, rv, omagic, o_read, o_old,
                  of, cf, chflags, sb, appended, hist, log, opens, closes >>

\* mutt_edit_file(NONULL(Editor), tmp): the editor leaves the file alone,
\* or writes the same content back (only the modification time changes), or
\* rewrites it, to any size and with any modification time.
EditFile ==
  /\ pc = "editor"
  /\ handed' = tmp.size
  /\ \/ tmp' = tmp /\ Log({"editor"})
     \/ \E mt \in 0..MaxTime :
          /\ tmp' = [tmp EXCEPT !.mtime = mt]
          /\ Log({"editor", "touched"})
     \/ \E sz \in 0..MaxSize, mt \in 0..MaxTime :
          /\ tmp' = [tmp EXCEPT !.size = sz, !.mtime = mt]
          /\ Log({"editor", "rewritten"})
  /\ pc' = "stat2"
  /\ UNCHANGED << glob, driver, emails, MboxType, cur, rc, rv, locals, appended,
                  entry, entryMagic, written, made, opens, closes >>

\* rc = stat(tmp, &sb); if (rc == -1) { mutt_error(...); goto bail; }
StatEdited ==
  /\ pc = "stat2"
  /\ \E r \in {0, -1} :
       /\ rc' = r
       /\ IF r = -1
            THEN Log({"err_stat2"}) /\ pc' = "bail" /\ sb' = sb
            ELSE /\ sb' = [st_size |-> tmp.size, st_mtime |-> tmp.mtime]
                 /\ pc' = "detect"
                 /\ log' = log
  /\ UNCHANGED << glob, driver, emails, MboxType, cur, rv, omagic, o_read, o_old, of, cf,
                  chflags, mtime, tmp, appended, hist, opens, closes >>

\* Detect without the final "if (!edit) goto bail".
Detect_ViewFallsThrough ==
  /\ pc = "detect"
  /\ IF sb.st_size = 0
       THEN Log({"msg_empty"}) /\ rc' = 1 /\ pc' = "bail"
       ELSE IF edit /\ sb.st_mtime = mtime
         THEN Log({"msg_not_modified"}) /\ rc' = 1 /\ pc' = "bail"
         ELSE IF ~edit /\ sb.st_mtime # mtime
           THEN Log({"msg_ignoring_changes"}) /\ rc' = 1 /\ pc' = "bail"
           ELSE rc' = rc /\ pc' = "fopen" /\ log' = log
  /\ UNCHANGED << glob, driver, emails, MboxType, cur, rv, locals, tmp, appended, hist,
                  opens, closes >>

\* Detect without the test "if (sb.st_size == 0)".
Detect_NoEmptyTest ==
  /\ pc = "detect"
  /\ IF edit /\ sb.st_mtime = mtime
       THEN Log({"msg_not_modified"}) /\ rc' = 1 /\ pc' = "bail"
       ELSE IF ~edit /\ sb.st_mtime # mtime
         THEN Log({"msg_ignoring_changes"}) /\ rc' = 1 /\ pc' = "bail"
         ELSE IF ~edit
           THEN rc' = 1 /\ pc' = "bail" /\ log' = log
           ELSE rc' = rc /\ pc' = "fopen" /\ log' = log
  /\ UNCHANGED << glob, driver, emails, MboxType, cur, rv, locals, tmp, appended, hist,
                  opens, closes >>

\* The four tests between the second stat and fopen.
Detect ==
  /\ pc = "detect"
  /\ IF sb.st_size = 0
       THEN Log({"msg_empty"}) /\ rc' = 1 /\ pc' = "bail"
       ELSE IF edit /\ sb.st_mtime = mtime
         THEN Log({"msg_not_modified"}) /\ rc' = 1 /\ pc' = "bail"
         ELSE IF ~edit /\ sb.st_mtime # mtime
           THEN Log({"msg_ignoring_changes"}) /\ rc' = 1 /\ pc' = "bail"
           ELSE IF ~edit
             THEN rc' = 1 /\ pc' = "bail" /\ log' = log
             ELSE rc' = rc /\ pc' = "fopen" /\ log' = log
  /\ UNCHANGED << glob, driver, emails, MboxType, cur, rv, locals, tmp, appended, hist,
                  opens, closes >>

\* fp = fopen(tmp, "r"); if (!fp) { rc = -1; mutt_error(...); goto bail; }
OpenSurrogate ==
  /\ pc = "fopen"
  /\ \E ok \in BOOLEAN :
       IF ok
         THEN Open({"fp"}) /\ pc' = "open_append" /\ UNCHANGED << rc, log >>
         ELSE rc' = -1 /\ Log({"err_fopen"}) /\ pc' = "bail" /\ opens' = opens
  /\ UNCHANGED << glob, driver, emails, MboxType, cur, rv, locals, tmp, appended, hist,
                  closes >>

\* tmpctx = mx_mbox_open(m, NULL, MUTT_APPEND);
\* if (!tmpctx) { rc = -1; mutt_error(...); goto bail; }
OpenAppend ==
  /\ pc = "open_append"
  /\ \E ok \in BOOLEAN :
       IF ok
         THEN Open({"dest"}) /\ Log({"append_opened"}) /\ pc' = "classify" /\ rc' = rc
         ELSE rc' = -1 /\ Log({"err_open_append"}) /\ pc' = "bail" /\ opens' = opens
  /\ UNCHANGED << glob, driver, emails, MboxType, cur, rv, locals, tmp, appended, hist,
                  closes >>

\* Classify without the inner test of the mailbox format.
Classify_ForceEverywhere ==
  /\ pc = "classify"
  /\ \E fgetsOk \in {tmp.size > 0}, isFrom \in BOOLEAN :
       IF fgetsOk /\ isFrom
         THEN /\ of' = {}
              /\ cf' = {"CH_FROM", "CH_FORCE_FROM"}
              /\ Log({"from_line"})
         ELSE /\ of' = {"MUTT_ADD_FROM"}
              /\ cf' = IF IsMboxLike(magic) THEN {} ELSE {"CH_NOSTATUS"}
              /\ log' = log
  /\ pc' = "open_new"
  /\ UNCHANGED << glob, driver, emails, MboxType, cur, rc, rv, omagic, o_read, o_old,
                  chflags, mtime, sb, tmp, appended, hist, opens, closes >>

\* of = 0; cf = (mbox or MMDF) ? 0 : CH_NOSTATUS;
\* if (fgets(buf, sizeof(buf), fp) && is_from(buf, NULL, 0, NULL))
\* { if (mbox or MMDF) cf = CH_FROM | CH_FORCE_FROM; } else of = MUTT_ADD_FROM;
\* (fgets fails on an empty file; whether the first line the editor left is a
\* "From " line is what is_from finds when it reads it.)
Classify ==
  /\ pc = "classify"
  /\ \E fgetsOk \in {tmp.size > 0}, isFrom \in BOOLEAN :
       IF fgetsOk /\ isFrom
         THEN /\ of' = {}
              /\ cf' = IF IsMboxLike(magic) THEN {"CH_FROM", "CH_FORCE_FROM"}
                                            ELSE {"CH_NOSTATUS"}
              /\ Log({"from_line"})
         ELSE /\ of' = {"MUTT_ADD_FROM"}
              /\ cf' = IF IsMboxLike(magic) THEN {} ELSE {"CH_NOSTATUS"}
              /\ log' = log
  /\ pc' = "open_new"
  /\ UNCHANGED << glob, driver, emails, MboxType, cur, rc, rv, omagic, o_read, o_old,
                  chflags, mtime, sb, tmp, appended, hist, opens, closes >>

\* o_read = cur->read; o_old = cur->old; cur->read = false; cur->old = false;
\* and the call of mx_msg_open_new(tmpctx->mailbox, cur, of) is entered.
ClearFlags ==
  /\ pc = "open_new"
  /\ o_read' = emails[cur].read
  /\ o_old' = emails[cur].old
  /\ emails' = [emails EXCEPT ![cur].read = FALSE, ![cur].old = FALSE]
  /\ pc' = "in_open_new"
  /\ UNCHANGED << glob, driver, MboxType, cur, rc, rv, omagic, of, cf, chflags, mtime, sb,
                  tmp, appended, hist, log, opens, closes >>

\* OpenNew that leaves the mailbox open when no record could be opened.
OpenNew_NoClose ==
  /\ pc = "in_open_new"
  /\ emails' = [emails EXCEPT ![cur].read = o_read, ![cur].old = o_old]
  /\ \E ok \in BOOLEAN :
       IF ok
         THEN Open({"msg"}) /\ Log({"new_opened"}) /\ pc' = "copy" /\ closes' = closes
         ELSE Log({"err_open_new"}) /\ closes' = closes /\ pc' = "bail" /\ opens' = opens
  /\ UNCHANGED << glob, driver, MboxType, cur, rc, rv, locals, tmp, appended, hist >>

\* msg = mx_msg_open_new(...) returns; cur->read = o_read; cur->old = o_old;
\* if (!msg) { mutt_error(...); mx_mbox_close(&tmpctx); goto bail; }
OpenNew ==
  /\ pc = "in_open_new"
  /\ emails' = [emails EXCEPT ![cur].read = o_read, ![cur].old = o_old]
  /\ \E ok \in BOOLEAN :
       IF ok
         THEN Open({"msg"}) /\ Log({"new_opened"}) /\ pc' = "copy" /\ closes' = closes
         ELSE Log({"err_open_new"}) /\ Close({"dest"}) /\ pc' = "bail" /\ opens' = opens
  /\ UNCHANGED << glob, driver, MboxType, cur, rc, rv, locals, tmp, appended, hist >>

\* rc = mutt_copy_hdr(fp, msg->fp, 0, sb.st_size, CH_NOLEN | cf, NULL);
\* if (rc == 0) { fputc('\n', msg->fp); mutt_file_copy_stream(fp, msg->fp); }
CopyMessage ==
  /\ pc = "copy"
  /\ \E r \in {0, -1} :
       /\ rc' = r
       /\ IF r = -1
            THEN Log({"hdr_failed"})
            ELSE \E bodyOk \in BOOLEAN :
                   IF bodyOk THEN Log({"copied"}) ELSE Log({"body_failed"})
  /\ pc' = "commit"
  /\ UNCHANGED << glob, driver, emails, MboxType, cur, rv, locals, tmp, appended, hist,
                  opens, closes >>

\* rc = mx_msg_commit(tmpctx->mailbox, msg); mx_msg_close(tmpctx->mailbox, &msg);
\* mx_mbox_close(&tmpctx);
\* (a record committed after a complete copy holds the bytes of tmp)
CommitMessage ==
  /\ pc = "commit"
  /\ \E r \in {0, -1} :
       /\ rc' = r
       /\ IF r = 0
            THEN /\ Log({"committed"}) /\ appended' = appended + 1
                 /\ made' = IF "copied" \in log
                              THEN [size |-> tmp.size,
                                    handed |-> IF "touched" \in log THEN handed ELSE -1]
                              ELSE NoCycle
            ELSE Log({"err_commit"}) /\ appended' = appended /\ made' = made
  /\ Close({"msg", "dest"})
  /\ pc' = "bail"
  /\ UNCHANGED << glob, driver, emails, MboxType, cur, rv, locals, tmp,
                  entry, entryMagic, written, handed, opens >>

\* Bail that unlinks tmp whatever rc is.
Bail_UnlinkAlways ==
  /\ pc = "bail"
  /\ IF Live("fp") THEN Close({"fp"}) ELSE closes' = closes
  /\ tmp' = NoFile
  /\ emails' =
       IF rc = 0
         THEN LET d == mutt_set_flag(emails[cur], "deleted", TRUE)
                  p == mutt_set_flag(d, "purged", TRUE)
                  r == mutt_set_flag(p, "read", TRUE)
                  t == IF DeleteUntag THEN mutt_set_flag(r, "tagged", FALSE) ELSE r
              IN  [emails EXCEPT ![cur] = t]
         ELSE emails
  /\ Log({"unlinked"}
         \cup (IF rc = 0 THEN {"flagged"} ELSE {})
         \cup (IF rc = -1 THEN {"msg_preserving"} ELSE {}))
  /\ rv' = rc
  /\ pc' = "done"
  /\ UNCHANGED << glob, driver, MboxType, cur, rc, locals, appended, hist, opens >>

\* Bail that untags the original whatever DeleteUntag is.
Bail_UntagAlways ==
  /\ pc = "bail"
  /\ IF Live("fp") THEN Close({"fp"}) ELSE closes' = closes
  /\ tmp' = IF rc >= 0 THEN NoFile ELSE tmp
  /\ emails' =
       IF rc = 0
         THEN LET d == mutt_set_flag(emails[cur], "deleted", TRUE)
                  p == mutt_set_flag(d, "purged", TRUE)
                  r == mutt_set_flag(p, "read", TRUE)
                  t == mutt_set_flag(r, "tagged", FALSE)
              IN  [emails EXCEPT ![cur] = t]
         ELSE emails
  /\ Log((IF rc >= 0 THEN {"unlinked"} ELSE {})
         \cup (IF rc = 0 THEN {"flagged"} ELSE {})
         \cup (IF rc = -1 THEN {"msg_preserving"} ELSE {}))
  /\ rv' = rc
  /\ pc' = "done"
  /\ UNCHANGED << glob, driver, MboxType, cur, rc, locals, appended, hist, opens >>

\* bail: mutt_file_fclose(&fp); if (rc >= 0) unlink(tmp);
\* if (rc == 0) { mutt_set_flag(DELETE, PURGE, READ); if (DeleteUntag) ...TAG, 0 }
\* else if (rc == -1) mutt_message("Error. Preserving temporary file"); return rc;
Bail ==
  /\ pc = "bail"
  /\ IF Live("fp") THEN Close({"fp"}) ELSE closes' = closes
  /\ tmp' = IF rc >= 0 THEN NoFile ELSE tmp
  /\ emails' =
       IF rc = 0
         THEN LET d == mutt_set_flag(emails[cur], "deleted", TRUE)
                  p == mutt_set_flag(d, "purged", TRUE)
                  r == mutt_set_flag(p, "read", TRUE)
                  t == IF DeleteUntag THEN mutt_set_flag(r, "tagged", FALSE) ELSE r
              IN  [emails EXCEPT ![cur] = t]
         ELSE emails
  /\ Log((IF rc >= 0 THEN {"unlinked"} ELSE {})
         \cup (IF rc = 0 THEN {"flagged"} ELSE {})
         \cup (IF rc = -1 THEN {"msg_preserving"} ELSE {}))
  /\ rv' = rc
  /\ pc' = "done"
  /\ UNCHANGED << glob, driver, MboxType, cur, rc, locals, appended, hist, opens >>

\* ---------------------------------------------------- edit_or_view_message

\* edit_or_view_one_message has returned to its caller: its locals are gone
\* (of tmp only the file on disk remains, which no later step looks at).
LeaveOne ==
  /\ pc' = "idle" /\ cur' = 0 /\ rc' = RcUnset /\ rv' = RcUnset
  /\ omagic' = "MBOX" /\ o_read' = FALSE /\ o_old' = FALSE
  /\ of' = {} /\ cf' = {} /\ chflags' = {} /\ mtime' = 0 /\ sb' = NoStat
  /\ tmp' = NoFile
  /\ entry' = NoEntry /\ entryMagic' = "MBOX"
  /\ written' = 0 /\ handed' = 0 /\ log' = {}
  /\ opens' = NoHandles /\ closes' = NoHandles

\* if (e) return edit_or_view_one_message(edit, ctx->mailbox, e);
CallSingle ==
  /\ dpc = "start" /\ e # 0
  /\ EnterOne(e)
  /\ dpc' = "single"
  /\ UNCHANGED << glob, i, result, processed >>

ReturnSingle ==
  /\ dpc = "single" /\ pc = "done"
  /\ result' = rv
  /\ processed' = Append(processed, << cur, rv >>)
  /\ dpc' = "returned"
  /\ LeaveOne
  /\ UNCHANGED << glob, i, emails, MboxType, appended, made >>

\* for (int i = 0; ...
EnterLoop ==
  /\ dpc = "start" /\ e = 0
  /\ i' = 0 /\ dpc' = "loop"
  /\ UNCHANGED << glob, result, processed, emails, MboxType, pc, cur, rc, rv, locals,
                  tmp, appended, hist, log, opens, closes >>

\* message_is_tagged(ctx, i)
message_is_tagged(k) == emails[k + 1].tagged

\* if (!message_is_tagged(ctx, i)) continue;
SkipUntagged ==
  /\ dpc = "loop" /\ i < MaxMsgs
  /\ ~message_is_tagged(i)
  /\ i' = i + 1
  /\ UNCHANGED << glob, dpc, result, processed, emails, MboxType, pc, cur, rc, rv,
                  locals, tmp, appended, hist, log, opens, closes >>

\* edit_or_view_one_message(edit, ctx->mailbox, ctx->mailbox->emails[i])
CallTagged ==
  /\ dpc = "loop" /\ i < MaxMsgs
  /\ message_is_tagged(i)
  /\ EnterOne(i + 1)
  /\ dpc' = "incall"
  /\ UNCHANGED << glob, i, result, processed >>

\* ReturnTagged that goes on with the next message after a result of -1.
ReturnTagged_ContinueOnFailure ==
  /\ dpc = "incall" /\ pc = "done"
  /\ processed' = Append(processed, << cur, rv >>)
  /\ result' = result /\ dpc' = "loop" /\ i' = i + 1
  /\ LeaveOne
  /\ made' = NoCycle
  /\ UNCHANGED << glob, emails, MboxType, appended >>

\* if (edit_or_view_one_message(...) == -1) return -1;   else i++
ReturnTagged ==
  /\ dpc = "incall" /\ pc = "done"
  /\ processed' = Append(processed, << cur, rv >>)
  /\ IF rv = -1
       THEN result' = -1 /\ dpc' = "returned" /\ i' = i
       ELSE result' = result /\ dpc' = "loop" /\ i' = i + 1
  /\ LeaveOne
  /\ made' = NoCycle
  /\ UNCHANGED << glob, emails, MboxType, appended >>

\* loop exhausted: return 0;
LoopDone ==
  /\ dpc = "loop" /\ i >= MaxMsgs
  /\ result' = 0 /\ dpc' = "returned"
  /\ UNCHANGED << glob, i, processed, emails, MboxType, pc, cur, rc, rv, locals,
                  tmp, appended, hist, log, opens, closes >>

\* The next edit cycle of the same message: the mailbox is read again and
\* the record the last call committed is the new single target.  (Only as
\* long as that record plus its separator fits the size bound.)
ReEdit ==
  /\ dpc = "returned" /\ e # 0
  /\ made # NoCycle /\ made.size + 1 <= MaxSize
  /\ origin' = made /\ made' = NoCycle
  /\ emails' = [emails EXCEPT ![e] = NewRecord]
  /\ appended' = 0
  /\ dpc' = "start" /\ result' = RcUnset /\ processed' = << >>
  /\ UNCHANGED << edit, e, magic, DeleteUntag, i, MboxType, pc, cur, rc, rv, locals, tmp,
                  entry, entryMagic, written, handed, log, opens, closes >>

Next ==
  \/ ReEdit
  \/ CallSingle \/ ReturnSingle \/ EnterLoop \/ SkipUntagged \/ CallTagged
  \/ ReturnTagged \/ LoopDone
  \/ SaveMboxType \/ CreateSurrogate \/ AppendMessage \/ StatSurrogate
  \/ TruncateSurrogate \/ RemoveWritePermission \/ CaptureBaseline \/ EditFile
  \/ StatEdited \/ Detect \/ OpenSurrogate \/ OpenAppend \/ Classify \/ ClearFlags
  \/ OpenNew \/ CopyMessage \/ CommitMessage \/ Bail

Spec == Init /\ [][Next]_vars

TypeOK ==
  /\ rc \in {RcUnset, -1, 0, 1} /\ rv \in {RcUnset, -1, 0, 1}
  /\ result \in {RcUnset, -1, 0, 1}
  /\ cur \in 0..MaxMsgs /\ i \in 0..MaxMsgs
  /\ tmp.size \in 0..MaxSize /\ tmp.mtime \in 0..MaxTime

\* ------------------------------------------------------------ vocabulary

\* edit_or_view_one_message has returned and the caller has not resumed.
Returned == pc = "done"

\* the mailbox is being, or may still be, written by the call
Reintegrating == pc \in {"open_append", "classify", "open_new", "in_open_new",
                         "copy", "commit"}

\* deleted, purged, read and tagged of the original are as at entry
KeptFlags ==
  /\ emails[cur].deleted = entry.deleted
  /\ emails[cur].purged  = entry.purged
  /\ emails[cur].read    = entry.read
  /\ emails[cur].tagged  = entry.tagged

\* the original was not flagged deleted / purged / read by the call
NotFlagged ==
  /\ emails[cur].deleted = entry.deleted
  /\ emails[cur].purged  = entry.purged
  /\ emails[cur].read    = entry.read

\* the second stat has succeeded: sb describes the file the editor left
PostEditStat == "editor" \in log /\ "err_stat2" \notin log /\ pc # "stat2"

\* tmp was left on disk and its path was reported
Preserved == tmp.exists /\ "msg_preserving" \in log /\ "unlinked" \notin log

\* tmp was removed by the call
Removed == ~tmp.exists /\ "unlinked" \in log

\* ---------------------------------------------------------------- claims

\* C1: the original is flagged deleted/purged/read only by a call in which a
\* new record was opened in the mailbox and mx_msg_commit returned success;
\* at every other return its deleted, purged, read and tagged flags are as
\* at entry.
C1_FlaggedOnlyAfterCommit ==
  /\ ("flagged" \in log) => ({"new_opened", "committed"} \subseteq log)
  /\ (Returned /\ ~({"new_opened", "committed"} \subseteq log)) => KeptFlags

\* C2: in view mode the mailbox is never opened for append, no new record is
\* ever opened in it and none is ever committed to it, whatever the editor
\* did to the file.
C2_ViewNeverWritesMailbox ==
  ~edit =>
    /\ ~Reintegrating
    /\ opens["dest"] = 0 /\ opens["msg"] = 0
    /\ appended = 0
    /\ log \cap {"append_opened", "err_open_append", "new_opened", "err_open_new",
                 "copied", "hdr_failed", "body_failed", "committed", "err_commit"} = {}

C2_Witness ==
  /\ ~edit /\ Returned
  /\ "rewritten" \in log /\ "msg_ignoring_changes" \in log
  /\ sb.st_mtime # mtime /\ sb.st_size # handed

\* C3: in view mode the call never returns 0 and never changes a flag of the
\* original: once tmp exists the result is 1, or -1 on a hard error.
C3_ViewNeverCommits ==
  (~edit /\ cur # 0) =>
    /\ rv # 0
    /\ emails[cur] = entry
    /\ (Returned /\ "created" \in log) => rv \in {1, -1}

\* C4: when mx_msg_open_new returns NULL the result is -1, tmp is still on
\* disk with its path reported, and the original is not flagged.
C4_OpenNewFailureIsFailed ==
  (Returned /\ "err_open_new" \in log) => (rv = -1 /\ Preserved /\ NotFlagged)

\* C5: when mutt_copy_hdr, the body copy or mx_msg_commit fails the result is
\* -1, no record counts as committed, the flags of the original are
\* unchanged and tmp is still on disk.
C5_WriteFailureIsFailed ==
  (Returned /\ log \cap {"hdr_failed", "body_failed", "err_commit"} # {}) =>
    (rv = -1 /\ "committed" \notin log /\ emails[cur] = entry /\ tmp.exists)

\* C6: when truncate(tmp, size - 1) fails the call returns -1 without
\* running the editor, tmp is left on disk and the original is not flagged,
\* in edit and in view mode.
C6_TruncateFailureIsFatal ==
  /\ ("err_truncate" \in log) => "editor" \notin log
  /\ (Returned /\ "err_truncate" \in log) => (rv = -1 /\ tmp.exists /\ NotFlagged)

\* C7: for a call that created tmp: at return tmp has been removed when the
\* result is 0 or 1; when the result is -1 tmp is still on disk, its path has
\* been reported and it was never unlinked.
C7_CleanedUpUnlessFailed ==
  (Returned /\ "created" \in log) =>
    /\ rv \in {-1, 0, 1}
    /\ (rv \in {0, 1}) => Removed
    /\ (rv = -1) => Preserved

C7_Witness ==
  /\ Returned /\ rv = -1 /\ "err_commit" \in log /\ tmp.exists

\* C8 as stated: when tmp cannot be created or the message cannot be
\* appended to it, the call fails without running the editor and tmp is
\* absent from disk at return.
C8_ExtractionFailureLeavesNoFile ==
  (Returned /\ log \cap {"err_create", "err_append"} # {}) =>
    (rv = -1 /\ "editor" \notin log /\ ~tmp.exists)

\* C8 as the code has it: both failures end the call with -1 before the
\* editor runs; tmp is absent when it could not be created, and is left on
\* disk with its path reported when the append into it failed.
C8_ExtractionFailure ==
  /\ (log \cap {"err_create", "err_append"} # {}) =>
        ("editor" \notin log /\ pc \in {"bail", "done", "idle"})
  /\ (Returned /\ "err_create" \in log) =>
        (rv = -1 /\ ~tmp.exists /\ "created" \notin log)
  /\ (Returned /\ "err_append" \in log) => (rv = -1 /\ Preserved)

C8_Witness ==
  /\ Returned /\ "err_append" \in log /\ tmp.exists /\ rv = -1

\* C9: in edit mode, when the editor has returned and the file is non-empty
\* with a modification time equal to the baseline, the result is 1, the
\* mailbox is never opened for append, no flag of the original changes and
\* tmp is removed; and a file the editor did not write always has the
\* baseline as its modification time, although the call truncated it (and
\* moved its mtime back) before.
C9_UntouchedIsUnchanged ==
  /\ (edit /\ PostEditStat /\ sb.st_size # 0 /\ sb.st_mtime = mtime) =>
        /\ ~Reintegrating /\ pc # "fopen"
        /\ opens["dest"] = 0 /\ "err_open_append" \notin log
        /\ emails[cur] = entry
        /\ Returned => (rv = 1 /\ Removed)
  /\ (edit /\ PostEditStat /\ log \cap {"rewritten", "touched"} = {}) => sb.st_mtime = mtime

C9_Witness ==
  /\ Returned /\ edit /\ rv = 1
  /\ "trimmed" \in log /\ log \cap {"rewritten", "touched"} = {}
  /\ "msg_not_modified" \in log
  /\ sb.st_size # 0

\* C10: when the second stat reports size 0, in edit or view mode and
\* whatever the modification time, the call never reintegrates, removes tmp
\* and returns 1, which does not stop a batch.
C10_EmptyFileIsNoOp ==
  (PostEditStat /\ sb.st_size = 0) =>
    /\ ~Reintegrating /\ pc # "fopen"
    /\ opens["dest"] = 0 /\ "err_open_append" \notin log
    /\ emails[cur] = entry
    /\ Returned => (rv = 1 /\ Removed)

C10_Witness ==
  /\ Returned /\ edit /\ "msg_empty" \in log
  /\ sb.st_size = 0 /\ sb.st_mtime # mtime /\ rv = 1

\* the indices of the messages whose call has finished, in the order of the calls
ProcessedIdx == [n \in 1..Len(processed) |-> processed[n][1]]

\* C11: with e == NULL the messages are visited in increasing order; a call
\* is made exactly on the messages that are tagged when their index is
\* reached, once each, and one call is over before the next begins; the
\* first call that returns -1 ends the loop with -1, no later message is
\* touched, and what earlier calls did to their messages stays.
C11_BatchStopsAtFirstFailure ==
  (e = 0) =>
    /\ \A n \in 1..Len(processed) :
         /\ (n > 1) => processed[n - 1][1] < processed[n][1]
         /\ (n < Len(processed)) => processed[n][2] # -1
         /\ processed[n][1] <= i + 1
         /\ (processed[n][2] = 0) =>
               LET m == emails[processed[n][1]]
               IN  m.deleted /\ m.purged /\ m.read
         /\ (processed[n][2] # 0) => emails[processed[n][1]] \in BatchChoices
    /\ (dpc = "incall") => (cur = i + 1 /\ entry.tagged
                            /\ \A n \in 1..Len(processed) : processed[n][1] < cur)
    /\ (dpc # "incall") => pc = "idle"
    /\ \A k \in 1..MaxMsgs :
         \* reached and not called: it was, and is, untagged
         /\ (k <= i /\ \A n \in 1..Len(processed) : processed[n][1] # k) =>
               (emails[k] \in BatchChoices /\ ~emails[k].tagged)
         \* not reached: untouched
         /\ (k > i + 1) =>
               (emails[k] \in BatchChoices /\ \A n \in 1..Len(processed) : processed[n][1] # k)
    /\ (dpc = "returned") =>
         IF Len(processed) > 0 /\ processed[Len(processed)][2] = -1
           THEN result = -1 /\ processed[Len(processed)][1] = i + 1
           ELSE result = 0 /\ i = MaxMsgs

C11_Witness ==
  /\ e = 0 /\ dpc = "returned" /\ result = -1
  /\ processed = << << 1, -1 >> >>
  /\ MaxMsgs >= 2 /\ emails[2].tagged /\ emails[2] \in BatchChoices

\* C12: when the call returns 0 the original is deleted, purged and read,
\* and its tagged flag is cleared when DeleteUntag is set and is as at entry
\* otherwise; when it returns 1 or -1 no flag of the original has changed.
C12_FlagsOnCommitted ==
  Returned =>
    /\ (rv = 0) =>
         /\ emails[cur].deleted /\ emails[cur].purged /\ emails[cur].read
         /\ emails[cur].tagged = (IF DeleteUntag THEN FALSE ELSE entry.tagged)
    /\ (rv \in {1, -1}) => emails[cur] = entry

C12_Witness ==
  /\ Returned /\ rv = 0 /\ "committed" \in log
  /\ ~DeleteUntag /\ entry.tagged /\ emails[cur].tagged
  /\ ~entry.read /\ emails[cur].read /\ emails[cur].deleted /\ emails[cur].purged

\* C13: edit_or_view_message returns 1 when the message was not modified, 0
\* when it was edited successfully and -1 on error, for a single target and
\* for a batch: it returns 0 only if a message was edited and committed.
C13_ZeroOnlyIfCommitted ==
  (dpc = "returned") =>
    /\ result \in {-1, 0, 1}
    /\ (result = 0) => (appended > 0 /\ \E n \in 1..Len(processed) : processed[n][2] = 0)

\* C14: while mx_msg_open_new runs, read and old of the original are false;
\* right after it, whether it returned a record or NULL, and at every other
\* point of the call before bail, they are as at entry; at the return of
\* every call that did not commit a record they are as at entry.
C14_ReadOldClearedOnlyDuringOpenNew ==
  (cur # 0) =>
    /\ (pc = "in_open_new") =>
          (~emails[cur].read /\ ~emails[cur].old
           /\ o_read = entry.read /\ o_old = entry.old)
    /\ (pc \notin {"in_open_new", "done"}) =>
          (emails[cur].read = entry.read /\ emails[cur].old = entry.old)
    /\ (Returned /\ ~(rv = 0 /\ "committed" \in log)) =>
          (emails[cur].read = entry.read /\ emails[cur].old = entry.old)

\* the separator mode has been chosen for the record being written
Classified == pc \in {"open_new", "in_open_new", "copy", "commit"}

\* C15: MUTT_ADD_FROM is asked for exactly when the file does not begin with
\* a "From " line; CH_FROM | CH_FORCE_FROM is used exactly when it does and
\* the mailbox is mbox or MMDF; never both; CH_NOSTATUS is used exactly when
\* the mailbox is neither mbox nor MMDF.
C15_SeparatorMode ==
  Classified =>
    /\ ("MUTT_ADD_FROM" \in of) <=> ("from_line" \notin log)
    /\ ({"CH_FROM", "CH_FORCE_FROM"} \subseteq cf)
          <=> ("from_line" \in log /\ IsMboxLike(magic))
    /\ (cf \cap {"CH_FROM", "CH_FORCE_FROM"} # {})
          => {"CH_FROM", "CH_FORCE_FROM"} \subseteq cf
    /\ ~("MUTT_ADD_FROM" \in of /\ cf \cap {"CH_FROM", "CH_FORCE_FROM"} # {})
    /\ ("CH_NOSTATUS" \in cf) <=> ~IsMboxLike(magic)

C15_Witness ==
  /\ pc = "copy" /\ "from_line" \in log /\ magic = "MAILDIR"
  /\ of = {} /\ cf = {"CH_NOSTATUS"}

\* C17: in view mode a failed chmod does not end the call: the baseline is
\* taken and the editor is run; the result depends on the file the editor
\* leaves exactly as after a successful chmod (1, or -1 when the second stat
\* fails), and a modification time other than the baseline is reported as
\* ignored changes, with result 1 and the mailbox untouched.
C17_ChmodFailureNonFatal ==
  (~edit /\ cur # 0) =>
    /\ ("dbg_chmod" \in log) => (pc \in {"baseline", "editor"} \/ "editor" \in log)
    /\ (Returned /\ "editor" \in log) =>
          /\ rv = (IF "err_stat2" \in log THEN -1 ELSE 1)
          /\ emails[cur] = entry
          /\ tmp.exists = ("err_stat2" \in log)
          /\ ("msg_ignoring_changes" \in log)
                <=> ("err_stat2" \notin log /\ sb.st_size # 0 /\ sb.st_mtime # mtime)
          /\ ("msg_empty" \in log) <=> ("err_stat2" \notin log /\ sb.st_size = 0)
    /\ ("msg_ignoring_changes" \in log) => (opens["dest"] = 0 /\ appended = 0)

C17_Witness ==
  /\ ~edit /\ Returned /\ "dbg_chmod" \in log /\ tmp = NoFile
  /\ "msg_ignoring_changes" \in log /\ rv = 1 /\ sb.st_mtime # mtime

\* C18: every handle the call opens is closed before it returns, each once;
\* no handle is open while the editor runs; the mailbox is open only between
\* the tests after the second stat and bail.
C18_HandlesClosed ==
  /\ \A h \in Handles : opens[h] <= 1 /\ closes[h] <= opens[h]
  /\ Returned => closes = opens
  /\ (pc \in {"stat1", "truncate", "chmod", "baseline", "editor", "stat2", "detect"})
        => \A h \in Handles : ~Live(h)
  /\ Live("dest") => Classified \/ pc = "classify"
  /\ Live("msg") => pc \in {"copy", "commit"}
  /\ Live("tmpctx") => pc = "append"
  /\ Live("fp") => (Reintegrating \/ pc = "bail")

C18_Witness ==
  /\ Returned /\ "err_open_new" \in log
  /\ opens = [h \in Handles |-> IF h = "msg" THEN 0 ELSE 1] /\ closes = opens

\* C19: MboxType is MUTT_MBOX only while the file is being created; at every
\* return, the one after a failed creation included, and while the message
\* is extracted, the editor runs or the mailbox is opened, it is what it was
\* at entry.
C19_MboxTypeRestored ==
  (cur # 0) =>
    /\ (pc = "create") => (MboxType = "MBOX" /\ omagic = entryMagic)
    /\ (pc \notin {"create"}) => MboxType = entryMagic

C19_Witness ==
  /\ Returned /\ "err_create" \in log /\ rv = -1
  /\ entryMagic = "MAILDIR" /\ MboxType = "MAILDIR"

====
